---- MODULE Spec2Model ----
(***************************************************************************)
(* Saghat mutual-aid fund: the monthly loan assignment                     *)
(* (apps/loans/algorithm.py) together with the operations that feed it     *)
(* (member creation, monthly payment, loan-request update, fund            *)
(* configuration) over the tables users, payments, membership fee          *)
(* payments, loan payments, loans and config.                              *)
(*                                                                         *)
(* Amounts are whole USDT.  math.log is modelled by LnTable, the natural   *)
(* logarithm rounded to two decimals and held as an integer number of      *)
(* hundredths.  A score is Unlimited (Python None) or an exact fraction.   *)
(***************************************************************************)
EXTENDS Integers, Sequences, FiniteSets, TLC

VARIABLES
    users,                    \* table users: id -> row
    payments,                 \* table payments
    membership_fee_payments,  \* table membership_fee_payments
    loan_payments,            \* table loan_payments
    loans,                    \* table loans
    config,                   \* table config: empty or the row pk=1
    now,                      \* the current Jalali (year, month)
    last,                     \* outcome of the last uninterrupted call
    pc,                       \* position of each concurrent invocation
    inv,                      \* locals of each concurrent invocation
    raced,                    \* history: the two invocations overlapped
    quiet,                    \* history: no other write since the first began
    succeeded                 \* history: periods of the successful runs

vars == <<users, payments, membership_fee_payments, loan_payments, loans,
          config, now, last, pc, inv, raced, quiet, succeeded>>

(***************************************************************************)
(* Bounds of the model.                                                    *)
(***************************************************************************)
\* number of members that are ever created
MaxUsers == 2
\* number of calendar months the clock runs through
MaxPeriods == 2
\* number of months the clock runs through next to the concurrent invocations
MaxConcPeriods == 3
\* payments in a member history handed to the score calculator
MaxScorePayments == 3

(***************************************************************************)
(* Input domains.                                                          *)
(***************************************************************************)
\* Python None of an Optional amount or member reference
None == -1
\* month in which the clock starts
StartPeriod == <<1403, 12>>
\* membership_fee values a member submits (10 is below the default minimum)
MembershipFees == {10, 20}
\* loan repayment values a member submits next to the fee
LoanRepayments == {None, 10, 20}
\* loan_request_amount values a member chooses (0 opts out)
LoanRequests == {0, 20, 40}
\* loan_request_amount submitted with a payment (None keeps the stored one)
PayLoanRequests == {None, 40}
\* the two concurrent invocations of run_loan_assignment
Runs == {1, 2}
\* --min-payment values of setup_fund
MinPayments == {10, 20}
\* member histories handed to the score calculator: the member's balance and
\* request, the amounts of the member's ACTIVE loans in creation order, the
\* amounts of the member's payments
ScoreBalances == {0, 1, 20}
ScoreRequests == {0, 1, 2, 20}
ScoreLoanAmounts == {<< >>, <<1>>, <<20>>, <<1, 20>>, <<20, 1>>}
ScorePaymentAmounts == {0, 20}

(***************************************************************************)
(* Calendar.                                                               *)
(***************************************************************************)
NextPeriod(p) == IF p[2] = 12 THEN <<p[1] + 1, 1>> ELSE <<p[1], p[2] + 1>>

RECURSIVE PeriodAt(_)
PeriodAt(i) == IF i <= 1 THEN StartPeriod ELSE NextPeriod(PeriodAt(i - 1))

Periods == {PeriodAt(i) : i \in 1..MaxPeriods}

ConcPeriods == {PeriodAt(i) : i \in 1..MaxConcPeriods}

\* order_by("-jalali_year", "-jalali_month"): p is later than q
PeriodAfter(p, q) == p[1] > q[1] \/ (p[1] = q[1] /\ p[2] > q[2])

(***************************************************************************)
(* Generic helpers.                                                        *)
(***************************************************************************)
RECURSIVE SumSeq(_)
SumSeq(s) == IF s = << >> THEN 0 ELSE Head(s) + SumSeq(Tail(s))

RECURSIVE SumSet(_)
SumSet(S) ==
    IF S = {} THEN 0
    ELSE LET x == CHOOSE y \in S : TRUE IN x.amount + SumSet(S \ {x})

Range(s) == {s[i] : i \in DOMAIN s}

RECURSIVE GCD(_, _)
GCD(a, b) == IF b = 0 THEN a ELSE GCD(b, a % b)

(***************************************************************************)
(* The database as one value, for the operators that query it.             *)
(***************************************************************************)
DB == [users |-> users, payments |-> payments,
       membership_fee_payments |-> membership_fee_payments,
       loan_payments |-> loan_payments, loans |-> loans, config |-> config]

UserIds(d) == DOMAIN d.users

\* Config field defaults
DefaultMinMembershipFee == 20
DefaultMaxMonthForLoanPayment == 24
DefaultMinAmountForLoanPayment == 20

DefaultConfig == [min_membership_fee |-> DefaultMinMembershipFee,
                  max_month_for_loan_payment |-> DefaultMaxMonthForLoanPayment,
                  min_amount_for_loan_payment |-> DefaultMinAmountForLoanPayment]

\* Config.get_config: get_or_create(pk=1); returns the table after the call
get_config(cfg) == IF cfg = << >> THEN <<DefaultConfig>> ELSE cfg

\* the ACTIVE-loan query answering "no" for everyone
has_active_loan_ignored(d, u) == FALSE

\* User.has_active_loan
has_active_loan(d, u) ==
    \E l \in d.loans : l.user = u /\ l.state = "active"

(***************************************************************************)
(* Initial state: the schema after the migrations, all tables empty.       *)
(***************************************************************************)
NoLast == [op |-> "none", code |-> "none", period |-> StartPeriod,
           user |-> None, unpaid |-> {}]

IdleInv == [period |-> StartPeriod, unpaid |-> << >>,
            user_objs |-> << >>, saghat_balance |-> 0,
            not_participated |-> << >>, eligible_users |-> << >>,
            user_scores |-> << >>, min_amount |-> None,
            config_created |-> FALSE, outcome |-> "none"]

Init ==
    /\ users = << >>
    /\ payments = {}
    /\ membership_fee_payments = {}
    /\ loan_payments = {}
    /\ loans = {}
    /\ config = << >>
    /\ now = StartPeriod
    /\ last = NoLast
    /\ pc = [r \in Runs |-> "idle"]
    /\ inv = [r \in Runs |-> IdleInv]
    /\ raced = FALSE
    /\ quiet = TRUE
    /\ succeeded = {}

(***************************************************************************)
(* Operations around the assignment.                                       *)
(***************************************************************************)
Result(op, code, p, u) ==
    [op |-> op, code |-> code, period |-> p, user |-> u, unpaid |-> {}]

\* POST /users: a new active member with balance 0
create_user(is_main, loan_request_amount) ==
    /\ Len(users) < MaxUsers
    /\ users' = Append(users, [is_active |-> TRUE, is_main |-> is_main,
                               balance |-> 0,
                               loan_request_amount |-> loan_request_amount])
    /\ last' = NoLast
    /\ UNCHANGED <<payments, membership_fee_payments, loan_payments, loans,
                   config, now, pc, inv>>

\* the admin site changes is_active of a member
set_is_active(u, b) ==
    /\ u \in DOMAIN users
    /\ users[u].is_active # b
    /\ users' = [users EXCEPT ![u].is_active = b]
    /\ last' = NoLast
    /\ UNCHANGED <<payments, membership_fee_payments, loan_payments, loans,
                   config, now, pc, inv>>

\* manage.py setup_fund --min-payment: creates or updates the config row
setup_fund(min_payment) ==
    /\ config' = <<[get_config(config)[1] EXCEPT
                       !.min_amount_for_loan_payment = min_payment]>>
    /\ config' # config
    /\ last' = NoLast
    /\ UNCHANGED <<users, payments, membership_fee_payments, loan_payments,
                   loans, now, pc, inv>>

\* get_current_jalali moves on to the next month
advance_month(horizon) ==
    /\ NextPeriod(now) \in horizon
    /\ now' = NextPeriod(now)
    /\ last' = NoLast
    /\ UNCHANGED <<users, payments, membership_fee_payments, loan_payments,
                   loans, config, pc, inv>>

\* PATCH /me/loan-request
update_loan_request_amount(u, amount) ==
    /\ u \in DOMAIN users
    /\ users[u].is_active
    /\ users[u].loan_request_amount # amount
    /\ users' = [users EXCEPT ![u].loan_request_amount = amount]
    /\ last' = NoLast
    /\ UNCHANGED <<payments, membership_fee_payments, loan_payments, loans,
                   config, now, pc, inv>>

\* the ACTIVE loans of a member (user.loans.filter(state=ACTIVE))
active_loans(d, u) == {l \in d.loans : l.user = u /\ l.state = "active"}

\* the loan checks of POST /pay left out
pay_code_loan_unchecked(d, period, u, membership_fee, loan, verified) ==
    LET conf == get_config(d.config)[1]
    IN  IF \E pm \in d.payments : pm.user = u /\ pm.period = period
        THEN "409"
        ELSE IF membership_fee < conf.min_membership_fee THEN "400"
        ELSE IF ~verified THEN "400"
        ELSE "201"

\* response code of POST /pay, from the checks before the transaction
pay_code(d, period, u, membership_fee, loan, verified) ==
    LET conf == get_config(d.config)[1]
        act  == active_loans(d, u)
    IN  IF \E pm \in d.payments : pm.user = u /\ pm.period = period
        THEN "409"
        ELSE IF membership_fee < conf.min_membership_fee THEN "400"
        ELSE IF Cardinality(act) > 1 THEN "500"
        ELSE IF act # {} /\ loan = None THEN "400"
        ELSE IF act # {} /\
                loan < (CHOOSE l \in act : TRUE).min_amount_for_each_payment
             THEN "400"
        ELSE IF act = {} /\ loan # None THEN "400"
        ELSE IF ~verified THEN "400"
        ELSE "201"

\* the detail of the ErrorResponse of POST /pay, "" when there is none
pay_detail(d, period, u, membership_fee, loan, verified) ==
    LET conf == get_config(d.config)[1]
        act  == active_loans(d, u)
    IN  IF \E pm \in d.payments : pm.user = u /\ pm.period = period
        THEN "Payment already submitted"
        ELSE IF membership_fee < conf.min_membership_fee
             THEN "Membership fee is less than minimum required"
        ELSE IF Cardinality(act) > 1 THEN "MultipleObjectsReturned"
        ELSE IF act # {} /\ loan = None
             THEN "Loan repayment amount is required"
        ELSE IF act # {} /\
                loan < (CHOOSE l \in act : TRUE).min_amount_for_each_payment
             THEN "Loan payment is less than minimum required"
        ELSE IF act = {} /\ loan # None
             THEN "Loan payment must be null"
        ELSE IF ~verified THEN "Bitpin payment verification failed"
        ELSE ""

\* POST /pay
pay(u, membership_fee, loan, loan_request_amount, verified) ==
    LET code == pay_code(DB, now, u, membership_fee, loan, verified)
        total_amount == membership_fee + (IF loan = None THEN 0 ELSE loan)
    IN  /\ u \in DOMAIN users
        /\ users[u].is_active
        /\ config' = get_config(config)
        /\ last' = NoLast
        /\ IF code = "201"
           THEN /\ users' = [users EXCEPT
                     ![u].loan_request_amount =
                         IF loan_request_amount = None THEN @
                         ELSE loan_request_amount,
                     ![u].balance = @ + membership_fee]
                /\ payments' = payments \cup
                     {[user |-> u, period |-> now, amount |-> total_amount]}
                /\ membership_fee_payments' = membership_fee_payments \cup
                     {[user |-> u, period |-> now, amount |-> membership_fee]}
                /\ loan_payments' =
                     IF loan = None THEN loan_payments
                     ELSE loan_payments \cup
                          {[user |-> u, period |-> now,
                            loan |-> (CHOOSE l \in active_loans(DB, u) : TRUE).id,
                            amount |-> loan]}
           ELSE UNCHANGED <<users, payments, membership_fee_payments,
                            loan_payments>>
        /\ UNCHANGED <<loans, now, pc, inv>>

(***************************************************************************)
(* Score calculator: compute_user_score.                                   *)
(***************************************************************************)
\* round(100 * math.log(x)) for x = 1 .. 200
LnTable ==
  << 0, 69, 110, 139, 161, 179, 195, 208, 220, 230, 240, 248, 256, 264, 271, 277, 283, 289, 294, 300,
     304, 309, 314, 318, 322, 326, 330, 333, 337, 340, 343, 347, 350, 353, 356, 358, 361, 364, 366, 369,
     371, 374, 376, 378, 381, 383, 385, 387, 389, 391, 393, 395, 397, 399, 401, 403, 404, 406, 408, 409,
     411, 413, 414, 416, 417, 419, 420, 422, 423, 425, 426, 428, 429, 430, 432, 433, 434, 436, 437, 438,
     439, 441, 442, 443, 444, 445, 447, 448, 449, 450, 451, 452, 453, 454, 455, 456, 457, 458, 460, 461,
     462, 462, 463, 464, 465, 466, 467, 468, 469, 470, 471, 472, 473, 474, 474, 475, 476, 477, 478, 479,
     480, 480, 481, 482, 483, 484, 484, 485, 486, 487, 488, 488, 489, 490, 491, 491, 492, 493, 493, 494,
     495, 496, 496, 497, 498, 498, 499, 500, 500, 501, 502, 502, 503, 504, 504, 505, 506, 506, 507, 508,
     508, 509, 509, 510, 511, 511, 512, 512, 513, 514, 514, 515, 515, 516, 516, 517, 518, 518, 519, 519,
     520, 520, 521, 521, 522, 523, 523, 524, 524, 525, 525, 526, 526, 527, 527, 528, 528, 529, 529, 530 >>

\* a logarithm that is positive at 1
Ln_positive_at_one(x) == LnTable[x] + 1

\* math.log of a positive amount, in hundredths
Ln(x) == LnTable[x]

\* a score: None (unlimited) or the Decimal num / den
Unlimited == [unlimited |-> TRUE, num |-> 0, den |-> 1]

\* a zero numerator returned as None instead of Decimal("0")
Finite_zero_as_none(n, d) ==
    IF n = 0 THEN [unlimited |-> TRUE, num |-> 0, den |-> 1]
    ELSE [unlimited |-> FALSE, num |-> n \div GCD(n, d),
          den |-> d \div GCD(n, d)]

\* the Decimal n / d
Finite(n, d) == LET g == GCD(n, d) IN
                [unlimited |-> FALSE, num |-> n \div g, den |-> d \div g]

\* a / b < c / d for a, c >= 0 and b, d > 0, without forming a * d
RECURSIVE FracLess(_, _, _, _)
FracLess(a, b, c, d) ==
    IF a \div b # c \div d THEN a \div b < c \div d
    ELSE IF c % d = 0 THEN FALSE
    ELSE IF a % b = 0 THEN TRUE
    ELSE FracLess(d, c % d, b, a % b)

\* Decimal comparison of two finite scores
ScoreLess(x, y) == FracLess(x.num, x.den, y.num, y.den)

\* the months factor counting at most one month
total_month_no_loan_capped(d, u) ==
    IF \E pm \in d.payments : pm.user = u THEN 1 ELSE 0

\* the months factor counting every payment, repayment or not
total_month_no_loan_all_payments(d, u) ==
    Cardinality({pm \in d.payments : pm.user = u})

\* lines 153-164: max(0, payments - months with a loan payment)
total_month_no_loan(d, u) ==
    LET total_payments_count ==
            Cardinality({pm \in d.payments : pm.user = u})
        months_with_loan_payment ==
            Cardinality({lp.period : lp \in
                            {x \in d.loan_payments : x.user = u}})
        diff == total_payments_count - months_with_loan_payment
    IN  IF diff > 0 THEN diff ELSE 0

\* a score of Decimal 0 for every member, whatever the history
compute_user_score_zero(d, u, user) ==
    [unlimited |-> FALSE, num |-> 0, den |-> 1]

compute_user_score(d, u, user) ==
    LET mine == {pm \in d.payments : pm.user = u}
        last_payment ==
            CHOOSE pm \in mine :
                \A o \in mine : o = pm \/ PeriodAfter(pm.period, o.period)
                                \/ o.period = pm.period
        total_user_loan_payments ==
            Cardinality({lp \in d.loan_payments : lp.user = u})
        act == active_loans(d, u)
        total_loan_amount == SumSet(act)
        total_loan_user_get == Cardinality(act)
        previous_loan == CHOOSE l \in act : \A o \in act : o.id <= l.id
        log_previous_loan ==
            IF act = {} \/ previous_loan.amount = None
               \/ previous_loan.amount <= 0
            THEN 0
            ELSE IF Ln(previous_loan.amount) > 0
                 THEN Ln(previous_loan.amount) ELSE 0
        log_balance ==
            IF user.balance <= 0 THEN 0
            ELSE IF Ln(user.balance) > 0 THEN Ln(user.balance) ELSE 0
        numerator ==
            log_previous_loan * log_balance * total_month_no_loan(d, u)
    IN  IF mine = {} THEN Unlimited
        ELSE IF last_payment.amount <= 0 THEN Unlimited
        ELSE IF total_user_loan_payments = 0 THEN Unlimited
        ELSE IF total_loan_amount <= 0 THEN Unlimited
        ELSE IF Ln(total_loan_amount) <= 0 THEN Unlimited
        ELSE IF total_loan_user_get = 0 THEN Unlimited
        ELSE IF user.loan_request_amount <= 0 THEN Unlimited
        ELSE IF Ln(user.loan_request_amount) <= 0 THEN Unlimited
        ELSE LET denominator ==
                     last_payment.amount * total_user_loan_payments
                     * Ln(total_loan_amount) * total_loan_user_get
                     * Ln(user.loan_request_amount)
             IN  IF denominator <= 0 THEN Unlimited
                 ELSE IF numerator <= 0 THEN Finite(0, 1)
                 ELSE Finite(numerator, denominator)

(***************************************************************************)
(* Assignment orchestrator: run_loan_assignment, in the three phases       *)
(* between which another request can commit: the reads up to the           *)
(* eligibility filter, the scoring queries, and the final write.           *)
(***************************************************************************)
IdSeq(n) == [i \in 1..n |-> i]

\* every member, the is_active filter left out
all_users_unfiltered(d) == IdSeq(Len(d.users))

\* list(User.objects.filter(is_active=True)), in primary-key order
all_users(d) ==
    SelectSeq(IdSeq(Len(d.users)), LAMBDA u : d.users[u].is_active)

\* user ids with a Payment for the period
paid_user_ids(d, p) == {pm.user : pm \in {x \in d.payments : x.period = p}}

\* the payment check left out
unpaid_users_unchecked(d, p) == << >>

unpaid_users(d, p) ==
    SelectSeq(all_users(d), LAMBDA u : u \notin paid_user_ids(d, p))

\* Sum("balance") over every member, the is_active filter left out
saghat_balance_all(d) ==
    SumSeq([i \in DOMAIN d.users |-> d.users[i].balance])

\* Sum("balance") over the active members, or 0
saghat_balance(d) ==
    SumSeq([i \in DOMAIN all_users(d) |-> d.users[all_users(d)[i]].balance])

\* the eligibility conditions without the opt-out check
eligibility_no_opt_out(d, u) ==
    LET user == d.users[u]
    IN  IF ~user.is_main /\ user.loan_request_amount > user.balance
        THEN "loan_request_amount > balance"
        ELSE IF has_active_loan(d, u) THEN "User has an active loan"
        ELSE "eligible"

\* the eligibility conditions with the opt-out check before the loan check
eligibility_reordered(d, u) ==
    LET user == d.users[u]
    IN  IF ~user.is_main /\ user.loan_request_amount > user.balance
        THEN "loan_request_amount > balance"
        ELSE IF user.loan_request_amount <= 0
             THEN "loan_request_amount is 0 (opted out)"
        ELSE IF has_active_loan(d, u) THEN "User has an active loan"
        ELSE "eligible"

\* the first failing eligibility condition of a member, or "eligible"
eligibility(d, u) ==
    LET user == d.users[u]
    IN  IF ~user.is_main /\ user.loan_request_amount > user.balance
        THEN "loan_request_amount > balance"
        ELSE IF has_active_loan(d, u) THEN "User has an active loan"
        ELSE IF user.loan_request_amount <= 0
             THEN "loan_request_amount is 0 (opted out)"
        ELSE "eligible"

not_participated(d) ==
    LET out == SelectSeq(all_users(d),
                         LAMBDA u : eligibility(d, u) # "eligible")
    IN  [i \in DOMAIN out |->
            [user_id |-> out[i], reason |-> eligibility(d, out[i])]]

\* the eligible members taken from every member, active or not
eligible_users_unfiltered(d) ==
    SelectSeq(all_users_unfiltered(d),
              LAMBDA u : eligibility(d, u) = "eligible")

eligible_users(d) ==
    SelectSeq(all_users(d), LAMBDA u : eligibility(d, u) = "eligible")

\* phase 1 (lines 196-260): what the invocation holds after its first reads
read_phase(d, p) ==
    [period |-> p,
     unpaid |-> unpaid_users(d, p),
     user_objs |-> d.users,
     saghat_balance |-> saghat_balance(d),
     not_participated |-> not_participated(d),
     eligible_users |-> eligible_users(d),
     user_scores |-> << >>,
     min_amount |-> get_config(d.config)[1].min_amount_for_loan_payment,
     config_created |-> (d.config = << >>),
     outcome |-> "running"]

\* phase 2 (lines 285-304): one UserScore per eligible member
user_scores(d, rd) ==
    [i \in DOMAIN rd.eligible_users |->
        LET u == rd.eligible_users[i]
        IN  [user_id |-> u,
             score |-> compute_user_score(d, u, rd.user_objs[u]),
             loan_request_amount |-> rd.user_objs[u].loan_request_amount]]

\* the eligible members kept whatever the fund holds
fundable_scores_unfiltered(scores, balance) == scores

\* lines 306-309
fundable_scores(scores, balance) ==
    SelectSeq(scores, LAMBDA us : us.loan_request_amount <= balance)

\* every fundable candidate, the score filter left out
max_score_group_unfiltered(fundable) == fundable

\* lines 342-352
max_score_group(fundable) ==
    IF \E i \in DOMAIN fundable : fundable[i].score.unlimited
    THEN SelectSeq(fundable, LAMBDA us : us.score.unlimited)
    ELSE LET max_score ==
                 fundable[CHOOSE i \in DOMAIN fundable :
                     \A j \in DOMAIN fundable :
                         ~ScoreLess(fundable[i].score, fundable[j].score)].score
         IN  SelectSeq(fundable, LAMBDA us : us.score = max_score)

\* lines 355: log.random_pool
random_pool(group) == [i \in DOMAIN group |-> group[i].user_id]

participated(scores) ==
    [i \in DOMAIN scores |->
        [user_id |-> scores[i].user_id, point |-> scores[i].score]]

\* a draw over every fundable candidate instead of the winner group
choices_fundable(rd, scores) ==
    LET fundable == fundable_scores(scores, rd.saghat_balance)
    IN  IF rd.eligible_users = << >> \/ fundable = << >> THEN {None}
        ELSE {fundable[i].user_id : i \in DOMAIN fundable}

\* a draw that always returns the first member of the winner group
choices_first(rd, scores) ==
    LET fundable == fundable_scores(scores, rd.saghat_balance)
    IN  IF rd.eligible_users = << >> \/ fundable = << >> THEN {None}
        ELSE {random_pool(max_score_group(fundable))[1]}

\* random.choice(max_score_group): the members the draw can return
choices(rd, scores) ==
    LET fundable == fundable_scores(scores, rd.saghat_balance)
    IN  IF rd.eligible_users = << >> \/ fundable = << >> THEN {None}
        ELSE Range(random_pool(max_score_group(fundable)))

\* the Loan row the invocation hands to Loan.objects.create (lines 262-393)
new_loan(rd, scores, selected) ==
    LET fundable == fundable_scores(scores, rd.saghat_balance)
    IN  IF rd.eligible_users = << >>
        THEN [user |-> None, amount |-> None, state |-> "no_one",
              period |-> rd.period, min_amount_for_each_payment |-> None,
              log |-> [not_participated |-> rd.not_participated,
                       participated |-> << >>, selected |-> None,
                       random_pool |-> << >>, note |-> FALSE]]
        ELSE IF fundable = << >>
        THEN [user |-> None, amount |-> None, state |-> "no_one",
              period |-> rd.period, min_amount_for_each_payment |-> None,
              log |-> [not_participated |-> rd.not_participated,
                       participated |-> participated(scores),
                       selected |-> None,
                       random_pool |-> << >>, note |-> TRUE]]
        ELSE [user |-> selected,
              amount |-> rd.user_objs[selected].loan_request_amount,
              state |-> "active",
              period |-> rd.period,
              min_amount_for_each_payment |-> rd.min_amount,
              log |-> [not_participated |-> rd.not_participated,
                       participated |-> participated(scores),
                       selected |-> selected,
                       random_pool |-> random_pool(max_score_group(fundable)),
                       note |-> FALSE]]

\* a loans table without the unique constraint
IntegrityError_unchecked(table, row) == FALSE

\* unique_together (jalali_year, jalali_month): the insert is refused
IntegrityError(table, row) == \E l \in table : l.period = row.period

\* an insert that stores a missing amount as 0
Loan_create_zero_amount(table, row) ==
    table \cup {[id |-> Cardinality(table) + 1] @@
                   [row EXCEPT !.amount = IF @ = None THEN 0 ELSE @]}

\* an insert that replaces the rows of the table
Loan_create_or_replace(table, row) == {[id |-> 1] @@ row}

\* Loan.objects.create: the table after a successful insert
Loan_create(table, row) ==
    table \cup {[id |-> Cardinality(table) + 1] @@ row}

\* a run that takes the granted amount out of the winner's balance
run_loan_assignment_debiting(p) ==
    LET rd == read_phase(DB, p)
        scores == user_scores(DB, rd)
    IN  /\ config' = get_config(config)
        /\ IF rd.unpaid # << >>
           THEN /\ last' = [Result("run", "PreconditionFailed", p, None)
                               EXCEPT !.unpaid = Range(rd.unpaid)]
                /\ UNCHANGED <<loans, succeeded, users>>
           ELSE \E selected \in choices(rd, scores) :
                  LET row == new_loan(rd, scores, selected)
                  IN  IF IntegrityError(loans, row)
                      THEN /\ last' = Result("run", "DuplicatePeriod", p, None)
                           /\ UNCHANGED <<loans, succeeded, users>>
                      ELSE /\ last' = Result("run", "created", p, selected)
                           /\ loans' = Loan_create(loans, row)
                           /\ succeeded' = succeeded \cup {p}
                           /\ users' =
                                IF selected = None THEN users
                                ELSE [users EXCEPT ![selected].balance =
                                        IF @ >= row.amount
                                        THEN @ - row.amount ELSE 0]
        /\ UNCHANGED <<payments, membership_fee_payments,
                       loan_payments, now, pc, inv>>

\* run_loan_assignment(jalali_year, jalali_month), run without interruption
run_loan_assignment(p) ==
    LET rd == read_phase(DB, p)
        scores == user_scores(DB, rd)
    IN  /\ config' = get_config(config)
        /\ IF rd.unpaid # << >>
           THEN /\ last' = [Result("run", "PreconditionFailed", p, None)
                               EXCEPT !.unpaid = Range(rd.unpaid)]
                /\ UNCHANGED <<loans, succeeded>>
           ELSE \E selected \in choices(rd, scores) :
                  LET row == new_loan(rd, scores, selected)
                  IN  IF IntegrityError(loans, row)
                      THEN /\ last' = Result("run", "DuplicatePeriod", p, None)
                           /\ UNCHANGED <<loans, succeeded>>
                      ELSE /\ last' = Result("run", "created", p, selected)
                           /\ loans' = Loan_create(loans, row)
                           /\ succeeded' = succeeded \cup {p}
        /\ UNCHANGED <<users, payments, membership_fee_payments,
                       loan_payments, now, pc, inv>>

Next ==
    \/ \E m \in BOOLEAN, a \in LoanRequests :
          create_user(m, a) /\ UNCHANGED <<raced, quiet, succeeded>>
    \/ \E u \in 1..MaxUsers :
          set_is_active(u, FALSE) /\ UNCHANGED <<raced, quiet, succeeded>>
    \/ advance_month(Periods) /\ UNCHANGED <<raced, quiet, succeeded>>
    \/ \E u \in 1..MaxUsers, a \in LoanRequests :
          update_loan_request_amount(u, a)
          /\ UNCHANGED <<raced, quiet, succeeded>>
    \/ \E u \in 1..MaxUsers, f \in MembershipFees, l \in LoanRepayments,
          a \in PayLoanRequests, v \in BOOLEAN :
          pay(u, f, l, a, v) /\ UNCHANGED <<raced, quiet, succeeded>>
    \/ run_loan_assignment(now) /\ UNCHANGED <<raced, quiet>>

Spec == Init /\ [][Next]_vars

(***************************************************************************)
(* Two invocations of run_loan_assignment whose phases interleave with     *)
(* each other and with the members' requests.                              *)
(***************************************************************************)
Other(r) == CHOOSE o \in Runs : o # r

\* a request of a member or of the clock committing next to the invocations
Disturb == quiet' = (quiet /\ \A r \in Runs : pc[r] = "idle")

\* lines 196-260: config, members, payments of the period, eligibility
start_run(r, p) ==
    LET rd == read_phase(DB, p)
    IN  /\ pc[r] = "idle"
        /\ config' = get_config(config)
        /\ raced' = (raced \/ pc[Other(r)] \in {"score", "commit"})
        /\ IF rd.unpaid # << >>
           THEN /\ inv' = [inv EXCEPT ![r] =
                              [rd EXCEPT !.outcome = "PreconditionFailed"]]
                /\ pc' = [pc EXCEPT ![r] = "done"]
           ELSE /\ inv' = [inv EXCEPT ![r] = rd]
                /\ pc' = [pc EXCEPT ![r] =
                            IF rd.eligible_users = << >> THEN "commit"
                            ELSE "score"]
        /\ UNCHANGED <<users, payments, membership_fee_payments,
                       loan_payments, loans, now, last, quiet, succeeded>>

\* lines 285-304: the scoring queries
score_run(r) ==
    /\ pc[r] = "score"
    /\ inv' = [inv EXCEPT ![r].user_scores = user_scores(DB, inv[r])]
    /\ pc' = [pc EXCEPT ![r] = "commit"]
    /\ UNCHANGED <<users, payments, membership_fee_payments, loan_payments,
                   loans, config, now, last, raced, quiet, succeeded>>

\* lines 306-393: affordability, winner group, draw, Loan.objects.create
commit_run(r) ==
    /\ pc[r] = "commit"
    /\ \E selected \in choices(inv[r], inv[r].user_scores) :
          LET row == new_loan(inv[r], inv[r].user_scores, selected)
          IN  IF IntegrityError(loans, row)
              THEN /\ inv' = [inv EXCEPT ![r].outcome = "DuplicatePeriod"]
                   /\ UNCHANGED <<loans, succeeded>>
              ELSE /\ inv' = [inv EXCEPT ![r].outcome = "created"]
                   /\ loans' = Loan_create(loans, row)
                   /\ succeeded' = succeeded \cup {inv[r].period}
    /\ pc' = [pc EXCEPT ![r] = "done"]
    /\ UNCHANGED <<users, payments, membership_fee_payments, loan_payments,
                   config, now, last, raced, quiet>>

\* the members' requests that run next to the invocations
conc_create_user(amount) ==
    /\ create_user(FALSE, amount)
    /\ Disturb
    /\ UNCHANGED <<raced, succeeded>>

conc_pay(u) ==
    /\ pay(u, 20, IF has_active_loan(DB, u) THEN 20 ELSE None, None, TRUE)
    /\ Disturb
    /\ UNCHANGED <<raced, succeeded>>

conc_advance_month ==
    /\ advance_month(ConcPeriods)
    /\ UNCHANGED <<raced, quiet, succeeded>>

\* the operator changes the fund configuration next to the invocations
conc_setup_fund(min_payment) ==
    /\ setup_fund(min_payment)
    /\ Disturb
    /\ UNCHANGED <<raced, succeeded>>

NextConc ==
    \/ \E a \in {0, 20} : conc_create_user(a)
    \/ \E u \in 1..MaxUsers : conc_pay(u)
    \/ conc_advance_month
    \/ \E r \in Runs, p \in ConcPeriods :
          ~PeriodAfter(p, now) /\ start_run(r, p)
    \/ \E r \in Runs : score_run(r)
    \/ \E r \in Runs : commit_run(r)

SpecConc == Init /\ [][NextConc]_vars

(***************************************************************************)
(* One invocation of run_loan_assignment for the current month next to     *)
(* the members' requests and to the operator changing the configuration.   *)
(***************************************************************************)
NextConfig ==
    \/ \E a \in {0, 20} : conc_create_user(a)
    \/ \E u \in 1..MaxUsers : conc_pay(u)
    \/ conc_advance_month
    \/ \E m \in MinPayments : conc_setup_fund(m)
    \/ start_run(1, now)
    \/ score_run(1)
    \/ commit_run(1)

SpecConfig == Init /\ [][NextConfig]_vars

(***************************************************************************)
(* A POST /pay request in its two phases, the reads and checks before the  *)
(* transaction and the transaction, between which the other requests       *)
(* commit: a pay of any member, a request update, a run, the month change. *)
(* The other pay requests are taken whole: their first phase writes no     *)
(* member or payment row, so whole requests committing between the two     *)
(* phases give every outcome two interleaved requests can have.            *)
(***************************************************************************)
\* lines 54-118: the member row loaded by the authentication, the config,
\* the month, and the checks before the transaction; a refusal is the
\* response of the request
pay_begin(r, u, membership_fee, loan, loan_request_amount, verified) ==
    LET code == pay_code(DB, now, u, membership_fee, loan, verified)
        act  == active_loans(DB, u)
    IN  /\ pc[r] = "idle"
        /\ u \in DOMAIN users
        /\ users[u].is_active
        /\ config' = get_config(config)
        /\ IF code = "201"
           THEN /\ inv' = [inv EXCEPT ![r] =
                     [user_id |-> u, user |-> users[u], period |-> now,
                      membership_fee |-> membership_fee, loan |-> loan,
                      loan_request_amount |-> loan_request_amount,
                      active_loan |-> IF act = {} THEN None
                                      ELSE (CHOOSE l \in act : TRUE).id]]
                /\ pc' = [pc EXCEPT ![r] = "pay_commit"]
                /\ last' = NoLast
           ELSE /\ last' = [op |-> "pay", code |-> code, period |-> now,
                            user |-> u, unpaid |-> {},
                            membership_fee |-> membership_fee, loan |-> loan,
                            detail |-> pay_detail(DB, now, u, membership_fee,
                                                  loan, verified)]
                /\ UNCHANGED <<pc, inv>>
        /\ UNCHANGED <<users, payments, membership_fee_payments,
                       loan_payments, loans, now, raced, quiet, succeeded>>

\* lines 120-152: the transaction; the insert of the Payment is refused by
\* unique_together (user, jalali_year, jalali_month) and the transaction is
\* rolled back when the member has a Payment of the month by then
pay_commit(r) ==
    LET l == inv[r]
        u == l.user_id
    IN  /\ pc[r] = "pay_commit"
        /\ pc' = [pc EXCEPT ![r] = "idle"]
        /\ inv' = [inv EXCEPT ![r] = IdleInv]
        /\ IF \E pm \in payments : pm.user = u /\ pm.period = l.period
           THEN /\ last' = Result("pay", "IntegrityError", l.period, u)
                /\ UNCHANGED <<users, payments, membership_fee_payments,
                               loan_payments>>
           ELSE /\ last' = Result("pay", "201", l.period, u)
                /\ users' = [users EXCEPT
                      ![u].loan_request_amount =
                          IF l.loan_request_amount = None
                          THEN l.user.loan_request_amount
                          ELSE l.loan_request_amount,
                      ![u].balance = l.user.balance + l.membership_fee]
                /\ payments' = payments \cup
                      {[user |-> u, period |-> l.period,
                        amount |-> l.membership_fee
                                   + (IF l.loan = None THEN 0 ELSE l.loan)]}
                /\ membership_fee_payments' = membership_fee_payments \cup
                      {[user |-> u, period |-> l.period,
                        amount |-> l.membership_fee]}
                /\ loan_payments' =
                      IF l.active_loan # None /\ l.loan # None
                      THEN loan_payments \cup
                             {[user |-> u, period |-> l.period,
                               loan |-> l.active_loan, amount |-> l.loan]}
                      ELSE loan_payments
        /\ UNCHANGED <<loans, config, now, raced, quiet, succeeded>>

NextPay ==
    \/ create_user(FALSE, 20) /\ UNCHANGED <<raced, quiet, succeeded>>
    \/ advance_month(Periods) /\ UNCHANGED <<raced, quiet, succeeded>>
    \/ \E u \in 1..MaxUsers, a \in {0, 20} :
          update_loan_request_amount(u, a)
          /\ UNCHANGED <<raced, quiet, succeeded>>
    \/ run_loan_assignment(now) /\ UNCHANGED <<raced, quiet>>
    \/ \E u \in 1..MaxUsers :
          pay(u, 20, IF has_active_loan(DB, u) THEN 20 ELSE None, None, TRUE)
          /\ UNCHANGED <<raced, quiet, succeeded>>
    \/ \E u \in 1..MaxUsers, f \in MembershipFees, l \in LoanRepayments,
          a \in PayLoanRequests, v \in BOOLEAN :
          pay_begin(1, u, f, l, a, v)
    \/ pay_commit(1)

SpecPay == Init /\ [][NextPay]_vars

(***************************************************************************)
(* POST /loans/start: two requests whose phases interleave with each other *)
(* and with the members' requests.                                         *)
(***************************************************************************)
\* lines 87-101: the month, the check for a Loan of the month, and the
\* first phase of run_loan_assignment
start_loan_assignment(r) ==
    IF \E l \in loans : l.period = now
    THEN /\ pc[r] = "idle"
         /\ inv' = [inv EXCEPT ![r] =
                      [IdleInv EXCEPT !.period = now, !.outcome = "409"]]
         /\ pc' = [pc EXCEPT ![r] = "done"]
         /\ raced' = (raced \/ pc[Other(r)] \in {"score", "commit"})
         /\ UNCHANGED <<users, payments, membership_fee_payments,
                        loan_payments, loans, config, now, last, quiet,
                        succeeded>>
    ELSE start_run(r, now)

\* lines 90-112: the response of a request that ended with this outcome;
\* only ValueError is caught, any other exception is an unhandled error
start_response(outcome) ==
    CASE outcome = "409" -> "409"
      [] outcome = "PreconditionFailed" -> "400"
      [] outcome = "created" -> "201"
      [] OTHER -> "unhandled IntegrityError"

NextStart ==
    \/ \E a \in {0, 20} : conc_create_user(a)
    \/ \E u \in 1..MaxUsers : conc_pay(u)
    \/ conc_advance_month
    \/ \E r \in Runs : start_loan_assignment(r)
    \/ \E r \in Runs : score_run(r)
    \/ \E r \in Runs : commit_run(r)

SpecStart == Init /\ [][NextStart]_vars

(***************************************************************************)
(* The score calculator applied to the histories of one member.            *)
(***************************************************************************)
\* the i-th ACTIVE loan of member 1, as run_loan_assignment inserts it
ScoreLoan(i, amount) ==
    [id |-> i, user |-> 1, amount |-> amount, state |-> "active",
     period |-> PeriodAt(i), min_amount_for_each_payment |-> 20,
     log |-> [not_participated |-> << >>,
              participated |-> <<[user_id |-> 1, point |-> Unlimited]>>,
              selected |-> 1, random_pool |-> <<1>>, note |-> FALSE]]

InitScore ==
    /\ \E b \in ScoreBalances, a \in ScoreRequests :
          users = <<[is_active |-> TRUE, is_main |-> FALSE,
                     balance |-> b, loan_request_amount |-> a]>>
    /\ \E amounts \in ScoreLoanAmounts :
          loans = {ScoreLoan(i, amounts[i]) : i \in DOMAIN amounts}
    /\ payments = {}
    /\ membership_fee_payments = {}
    /\ loan_payments = {}
    /\ config = << >>
    /\ now = StartPeriod
    /\ last = NoLast
    /\ pc = [r \in Runs |-> "idle"]
    /\ inv = [r \in Runs |-> IdleInv]
    /\ raced = FALSE
    /\ quiet = TRUE
    /\ succeeded = {}

\* one more month in the history of member 1: a Payment of the amount for
\* the month, with a LoanPayment for the latest ACTIVE loan or without
payment_history(amount, with_loan) ==
    /\ Cardinality(payments) < MaxScorePayments
    /\ with_loan => loans # {}
    /\ payments' = payments \cup
                      {[user |-> 1, period |-> now, amount |-> amount]}
    /\ loan_payments' =
          IF with_loan
          THEN loan_payments \cup
                 {[user |-> 1, period |-> now, loan |-> Cardinality(loans),
                   amount |-> 20]}
          ELSE loan_payments
    /\ now' = NextPeriod(now)
    /\ last' = NoLast
    /\ UNCHANGED <<users, membership_fee_payments, loans, config, pc, inv,
                   raced, quiet, succeeded>>

\* compute_user_score(user) for member 1
score_member ==
    /\ last.op # "score"
    /\ last' = [op |-> "score", code |-> "scored", period |-> now,
                user |-> 1, unpaid |-> {},
                score |-> compute_user_score(DB, 1, users[1])]
    /\ UNCHANGED <<users, payments, membership_fee_payments, loan_payments,
                   loans, config, now, pc, inv, raced, quiet, succeeded>>

NextScore ==
    \/ \E amount \in ScorePaymentAmounts, with_loan \in BOOLEAN :
          payment_history(amount, with_loan)
    \/ score_member

SpecScore == InitScore /\ [][NextScore]_vars

(***************************************************************************)
(* Properties.                                                             *)
(***************************************************************************)
LoansOf(p) == {l \in loans : l.period = p}

Unchanged_tables ==
    UNCHANGED <<users, payments, membership_fee_payments, loan_payments,
                loans, config>>

\* the step is an uninterrupted run_loan_assignment(p)
RunStep(p) ==
    last'.op = "run" /\ last'.period = p /\ run_loan_assignment(p)

\* C1: in every reachable state at most one Loan row exists for each
\* (year, month), and exactly one exists for a period once a run for it has
\* succeeded.
C1_OneLoanPerPeriod ==
    \A p \in Periods :
        /\ Cardinality(LoansOf(p)) <= 1
        /\ p \in succeeded => Cardinality(LoansOf(p)) = 1

\* a second run was refused for a period while two periods hold their loan
C1_Witness ==
    /\ last.op = "run" /\ last.code = "DuplicatePeriod"
    /\ Cardinality(succeeded) = 2

\* C2 as stated: whenever a Loan exists for p, run_loan_assignment(p) ends
\* with the uniqueness violation and with nothing else, and adds no Loan.
C2_AlwaysDuplicatePeriod ==
    [][\A p \in Periods :
          (LoansOf(p) # {} /\ RunStep(p))
          => (last'.code = "DuplicatePeriod" /\ loans' = loans)]_vars

\* C2 amended: whenever a Loan exists for p, run_loan_assignment(p) adds no
\* Loan and fails: with the precondition failure when some active member has
\* no Payment for p, with the uniqueness violation otherwise.
C2_FailsWithoutSecondLoan ==
    [][\A p \in Periods :
          (LoansOf(p) # {} /\ RunStep(p))
          => /\ loans' = loans
             /\ last'.code =
                  IF \E u \in DOMAIN users :
                        /\ users[u].is_active
                        /\ ~\E pm \in payments : pm.user = u /\ pm.period = p
                  THEN "PreconditionFailed"
                  ELSE "DuplicatePeriod"]_vars

\* a run for a period that has its Loan ended with the precondition failure
C2_Witness ==
    /\ last.op = "run" /\ last.code = "PreconditionFailed"
    /\ LoansOf(last.period) # {}

\* the active members without a Payment for p
Missing(p) ==
    {u \in DOMAIN users :
        /\ users[u].is_active
        /\ ~\E pm \in payments : pm.user = u /\ pm.period = p}

\* C3: run_loan_assignment(p) ends with the precondition failure exactly when
\* some active member has no Payment for p; the failure names exactly those
\* members and no Loan is created; inactive members never cause it.
C3_PreconditionFailed ==
    [][\A p \in Periods :
          RunStep(p)
          => /\ (last'.code = "PreconditionFailed") = (Missing(p) # {})
             /\ Missing(p) # {}
                  => (last'.unpaid = Missing(p) /\ loans' = loans)]_vars

\* a run failed while an inactive member without a Payment was not named
C3_Witness ==
    /\ last.op = "run" /\ last.code = "PreconditionFailed"
    /\ \E u \in DOMAIN users :
          /\ ~users[u].is_active
          /\ u \notin paid_user_ids(DB, last.period)
          /\ u \notin last.unpaid

\* C4: a failing run_loan_assignment leaves every table as it was.
C4_FailureWritesNothing ==
    [][\A p \in Periods :
          (RunStep(p)
             /\ last'.code \in {"PreconditionFailed", "DuplicatePeriod"})
          => Unchanged_tables]_vars

BothDone == \A r \in Runs : pc[r] = "done"

\* C5, states: when both invocations ran for the same period and both reached
\* the insert, one created the Loan, the other got the uniqueness violation,
\* and the period holds exactly one Loan.
C5_OneWinner ==
    (/\ BothDone
     /\ inv[1].period = inv[2].period
     /\ \A r \in Runs : inv[r].outcome # "PreconditionFailed")
    => /\ {inv[r].outcome : r \in Runs} = {"created", "DuplicatePeriod"}
       /\ Cardinality(LoansOf(inv[1].period)) = 1

\* C5, steps: an insert refused by the uniqueness constraint writes nothing.
C5_RefusedInsertWritesNothing ==
    \A r \in Runs :
        (commit_run(r) /\ inv'[r].outcome = "DuplicatePeriod")
        => Unchanged_tables

\* C5, the loser as a whole: the invocation that ends with the uniqueness
\* violation has inserted no row of any table, the config row included.
C5_LoserWroteNothing ==
    \A r \in Runs :
        (/\ BothDone
         /\ inv[1].period = inv[2].period
         /\ inv[r].outcome = "DuplicatePeriod")
        => ~inv[r].config_created

\* C5: two interleaved invocations for the same period: exactly one commits
\* a Loan, the other ends with the uniqueness violation having written
\* nothing, and exactly one Loan of the period exists afterwards.
C5_SamePeriodRace ==
    /\ [](C5_OneWinner /\ C5_LoserWroteNothing)
    /\ [][C5_RefusedInsertWritesNothing]_vars

\* C5 without the config row: exactly one invocation commits a Loan, the
\* insert of the other is refused and writes nothing, one Loan exists.
C5_OneLoanCommitted == []C5_OneWinner /\ [][C5_RefusedInsertWritesNothing]_vars

\* the loans tables an uninterrupted run_loan_assignment(p) can leave
run_outcomes(d, p) ==
    LET rd == read_phase(d, p)
        scores == user_scores(d, rd)
    IN  IF rd.unpaid # << >> THEN {d.loans}
        ELSE {LET row == new_loan(rd, scores, selected)
              IN  IF IntegrityError(d.loans, row) THEN d.loans
                  ELSE Loan_create(d.loans, row) :
              selected \in choices(rd, scores)}

\* the loans tables after run_loan_assignment(p), then run_loan_assignment(q)
Serial(d, p, q) ==
    UNION {run_outcomes([d EXCEPT !.loans = t], q) : t \in run_outcomes(d, p)}

\* the Loan rows of a table without their creation order
Rows(t) == {[f \in DOMAIN l \ {"id"} |-> l[f]] : l \in t}

\* C6: when two invocations for different periods interleave and nothing else
\* is written meanwhile, the loans they leave are loans that one of the two
\* sequential orders of the invocations can leave as well.
C6_DifferentPeriodsSerializable ==
    (BothDone /\ quiet /\ inv[1].period # inv[2].period)
    => LET base == [DB EXCEPT !.loans = {}]
       IN  Rows(loans) \in
             {Rows(t) : t \in Serial(base, inv[1].period, inv[2].period)
                          \cup Serial(base, inv[2].period, inv[1].period)}

\* C7: no member is the winner of more than one ACTIVE loan.
C7_AtMostOneActiveLoan ==
    \A u \in DOMAIN users : Cardinality(active_loans(DB, u)) <= 1

\* a later run left out the holder of an ACTIVE loan for that reason
C7_Witness ==
    \E l1 \in loans, l2 \in loans :
        /\ l1.state = "active" /\ l2.id > l1.id
        /\ \E i \in DOMAIN l2.log.not_participated :
              l2.log.not_participated[i] =
                  [user_id |-> l1.user, reason |-> "User has an active loan"]

\* the winner group of an invocation, from the scores and the fund balance
\* it computed
WinnerGroupOf(r) ==
    LET sc == inv[r].user_scores
        affordable == {i \in DOMAIN sc :
                          sc[i].loan_request_amount <= inv[r].saghat_balance}
        unlimited == {i \in affordable : sc[i].score.unlimited}
        top == {i \in affordable :
                   \A j \in affordable : ~ScoreLess(sc[i].score, sc[j].score)}
    IN  {sc[i].user_id : i \in IF unlimited # {} THEN unlimited ELSE top}

C9_WinnerInRandomPool ==
    \A l \in loans :
        l.state = "active"
        => /\ l.log.selected \in Range(l.log.random_pool)
           /\ l.user = l.log.selected

\* an ACTIVE loan whose random_pool leaves out a participated member
C9_Witness ==
    \E l \in loans :
        /\ l.state = "active"
        /\ Len(l.log.random_pool) < Len(l.log.participated)
        /\ l.user \in Range(l.log.random_pool)

\* the winner group run_loan_assignment(p) would form in the current state
WinnerGroup(p) ==
    LET eligible == {u \in DOMAIN users :
                        users[u].is_active /\ eligibility(DB, u) = "eligible"}
        affordable == {u \in eligible :
                          users[u].loan_request_amount <= saghat_balance(DB)}
        score(u) == compute_user_score(DB, u, users[u])
        unlimited == {u \in affordable : score(u).unlimited}
    IN  IF unlimited # {} THEN unlimited
        ELSE {u \in affordable :
                 \A v \in affordable : ~ScoreLess(score(u), score(v))}

EligibleSet ==
    {u \in DOMAIN users :
        /\ users[u].is_active
        /\ users[u].is_main \/ users[u].loan_request_amount <= users[u].balance
        /\ ~\E l \in loans : l.user = u /\ l.state = "active"
        /\ users[u].loan_request_amount > 0}

\* the sum of balance over the active members
FundBalance ==
    SumSet({[user |-> u, amount |-> users[u].balance] :
               u \in {v \in DOMAIN users : users[v].is_active}})

\* the Loan a step has inserted for period p
Created(p) == CHOOSE l \in loans' : l.period = p

\* C11: a run that gets past the precondition check and inserts its Loan
\* inserts an ACTIVE one exactly when some eligible member has
\* loan_request_amount <= fund balance; otherwise the Loan is NO_ONE without
\* a user, and with an empty participated list when nobody is eligible.
C11_ActiveIffAffordableEligible ==
    [][\A p \in Periods :
          (RunStep(p) /\ last'.code = "created")
          => LET l == Created(p)
                 fits == {u \in EligibleSet :
                             users[u].loan_request_amount <= FundBalance}
             IN  /\ l.state \in {"active", "no_one"}
                 /\ (l.state = "active") = (fits # {})
                 /\ fits = {} => l.user = None
                 /\ EligibleSet = {} => l.log.participated = << >>]_vars

\* a run inserted a NO_ONE Loan although a member was eligible: the request
\* did not fit the fund
C11_Witness ==
    /\ last.op = "run" /\ last.code = "created"
    /\ \E l \in LoansOf(last.period) :
          /\ l.state = "no_one" /\ l.user = None
          /\ l.log.participated # << >>

\* the user ids a log list names
Ids(entries) == {entries[i].user_id : i \in DOMAIN entries}

\* C12: the fund balance of a run is the sum of balance over the active
\* members only and the affordability test is inclusive: every eligible
\* member is listed in participated; a member whose request is greater than
\* the fund balance is never in random_pool, one whose request is at most the
\* fund balance (equal included) and whose score is unlimited is in it; when
\* no eligible request fits, the NO_ONE Loan carries the affordability note.
C12_InclusiveAffordability ==
    [][\A p \in Periods :
          (RunStep(p) /\ last'.code = "created")
          => LET l == Created(p)
                 fits == {u \in EligibleSet :
                             users[u].loan_request_amount <= FundBalance}
             IN  /\ Ids(l.log.participated) = EligibleSet
                 /\ Range(l.log.random_pool) \subseteq fits
                 /\ \A u \in fits :
                       compute_user_score(DB, u, users[u]).unlimited
                       => u \in Range(l.log.random_pool)
                 /\ l.log.note = (EligibleSet # {} /\ fits = {})
                 /\ l.log.note => l.state = "no_one"]_vars

\* a member whose request equals the fund balance won while an inactive
\* member holds a balance that is not counted
C12_Witness ==
    /\ last.op = "run" /\ last.code = "created"
    /\ \E l \in LoansOf(last.period) :
          /\ l.state = "active"
          /\ l.amount = FundBalance
          /\ users[l.user].loan_request_amount = l.amount
    /\ \E u \in DOMAIN users : ~users[u].is_active /\ users[u].balance > 0

\* the reason the rule gives for a member outside the eligible set: the first
\* of request-exceeds-balance, already-has-active-loan, opted-out that applies
FirstFailingReason(u) ==
    IF ~users[u].is_main /\ users[u].loan_request_amount > users[u].balance
    THEN "loan_request_amount > balance"
    ELSE IF \E l \in loans : l.user = u /\ l.state = "active"
    THEN "User has an active loan"
    ELSE "loan_request_amount is 0 (opted out)"

\* C13: in every run that inserts its Loan, an active member is treated as
\* eligible (listed in participated) exactly when it is main or its request is
\* within its balance, it has no ACTIVE loan and its request is positive;
\* every other active member has exactly one not_participated entry, with the
\* first failing reason; an inactive member is in neither list.
C13_EligibilityAndReasons ==
    [][\A p \in Periods :
          (RunStep(p) /\ last'.code = "created")
          => LET l == Created(p)
                 np == l.log.not_participated
             IN  \A u \in DOMAIN users :
                    IF ~users[u].is_active
                    THEN u \notin Ids(np) /\ u \notin Ids(l.log.participated)
                    ELSE IF u \in EligibleSet
                    THEN u \in Ids(l.log.participated) /\ u \notin Ids(np)
                    ELSE /\ u \notin Ids(l.log.participated)
                         /\ Cardinality({i \in DOMAIN np :
                                            np[i].user_id = u}) = 1
                         /\ \A i \in DOMAIN np :
                               np[i].user_id = u
                               => np[i].reason = FirstFailingReason(u)
                         /\ users[u].is_main
                               => FirstFailingReason(u)
                                    # "loan_request_amount > balance"]_vars

\* a run recorded a member with an ACTIVE loan and a zero request as having
\* an active loan
C13_Witness ==
    /\ last.op = "run" /\ last.code = "created"
    /\ \E l \in LoansOf(last.period) :
          \E i \in DOMAIN l.log.not_participated :
             LET e == l.log.not_participated[i]
             IN  /\ e.reason = "User has an active loan"
                 /\ users[e.user_id].loan_request_amount = 0

\* C14: the amount of an ACTIVE Loan is the loan_request_amount its run read
\* for the winner; it is strictly positive and at most the fund balance the
\* run computed.
C14_AmountIsWinnersRequest ==
    [][\A p \in Periods :
          (RunStep(p) /\ last'.code = "created"
             /\ Created(p).state = "active")
          => LET l == Created(p)
             IN  /\ l.user \in DOMAIN users
                 /\ l.amount = users[l.user].loan_request_amount
                 /\ l.amount > 0
                 /\ l.amount <= FundBalance]_vars

\* the winner of an ACTIVE Loan has changed the request since: the amount is
\* still the request the run read
C14_Witness ==
    \E l \in loans :
        /\ l.state = "active"
        /\ l.amount > 0
        /\ users[l.user].loan_request_amount # l.amount

\* C15, at the insert: the ACTIVE Loan an invocation inserts carries the
\* min_amount_for_loan_payment of the config row as it is at that moment.
C15_CopiedAtCommit ==
    \A r \in Runs :
        (commit_run(r) /\ inv'[r].outcome = "created")
        => LET l == Created(inv[r].period)
           IN  l.state = "active"
               => l.min_amount_for_each_payment =
                     get_config(config)[1].min_amount_for_loan_payment

\* C15, afterwards: no step changes min_amount_for_each_payment of a Loan.
C15_KeptAfterwards ==
    \A l \in loans :
        \E k \in loans' :
            /\ k.id = l.id
            /\ k.min_amount_for_each_payment = l.min_amount_for_each_payment

\* C15: min_amount_for_each_payment of an ACTIVE Loan is the configured
\* minimum loan repayment at the time the Loan is committed, and no later
\* operation, a change of the configuration included, changes it.
C15_MinRepaymentFromConfigAtCommit ==
    [][C15_CopiedAtCommit /\ C15_KeptAfterwards]_vars

\* C15 for the configuration the invocation read when it started
C15_MinRepaymentFromConfigRead ==
    [][/\ \A r \in Runs :
            (commit_run(r) /\ inv'[r].outcome = "created")
            => LET l == Created(inv[r].period)
               IN  l.state = "active"
                   => l.min_amount_for_each_payment = inv[r].min_amount
       /\ C15_KeptAfterwards]_vars

\* C16: for every Loan, in every reachable state, amount is set exactly when
\* the state is ACTIVE, and so are log.selected and user; a NO_ONE Loan has
\* no user, no amount, no selected and an empty random_pool.
C16_NullsMatchState ==
    \A l \in loans :
        /\ (l.amount # None) = (l.state = "active")
        /\ (l.log.selected # None) = (l.state = "active")
        /\ (l.user # None) = (l.state = "active")
        /\ l.state = "no_one" => l.log.random_pool = << >>

\* an ACTIVE Loan next to a NO_ONE Loan of a run in which a member was
\* eligible
C16_Witness ==
    \E a \in loans, n \in loans :
        /\ a.state = "active" /\ a.amount # None /\ a.user # None
        /\ n.state = "no_one" /\ n.log.participated # << >>

\* C17, states: every Loan is ACTIVE or NO_ONE, never INITIAL.
C17_Terminal == \A l \in loans : l.state \in {"active", "no_one"}

\* C17, steps: every Loan row of the table is in the table after the step,
\* with the same state, user, amount and log.
C17_RowsKept ==
    \A l \in loans :
        \E k \in loans' :
            /\ k.id = l.id /\ k.period = l.period
            /\ k.state = l.state /\ k.user = l.user
            /\ k.amount = l.amount /\ k.log = l.log

\* C17: every Loan is created in a terminal state, and its state, user,
\* amount and log never change under later runs, payments (loan payments
\* included) or changes of a loan request.
C17_CreatedTerminalAndImmutable == []C17_Terminal /\ [][C17_RowsKept]_vars

\* the winner of an ACTIVE Loan has paid a loan payment for it and changed
\* the request, and a later run has inserted another Loan
C17_Witness ==
    \E l \in loans :
        /\ l.state = "active"
        /\ \E lp \in loan_payments : lp.loan = l.id
        /\ users[l.user].loan_request_amount # l.amount
        /\ \E k \in loans : k.id > l.id

\* the facts of member 1 the denominator of the score is made of
ScorePayments == {pm \in payments : pm.user = 1}
ScoreLastPayment ==
    CHOOSE pm \in ScorePayments :
        \A o \in ScorePayments : ~PeriodAfter(o.period, pm.period)
ScoreLoanPayments == Cardinality({lp \in loan_payments : lp.user = 1})
ScoreActiveLoans == {l \in loans : l.user = 1 /\ l.state = "active"}
ScoreTotalLoanAmount == SumSet(ScoreActiveLoans)

\* some denominator fact is missing or not positive
DenominatorFactMissing ==
    \/ ScorePayments = {}
    \/ ScoreLastPayment.amount <= 0
    \/ ScoreLoanPayments = 0
    \/ ScoreTotalLoanAmount <= 1
    \/ ScoreActiveLoans = {}
    \/ users[1].loan_request_amount <= 1

\* C18: compute_user_score returns None (unlimited) exactly when a
\* denominator fact is missing or not positive: no Payment or a latest
\* Payment with amount <= 0, no LoanPayment, ACTIVE loans of total amount
\* <= 1, no ACTIVE loan, or loan_request_amount <= 1; in particular with no
\* Payment and with loan_request_amount 0 or 1; in every other case the score
\* is finite.
C18_UnlimitedIffDenominatorFactMissing ==
    last.op = "score"
    => /\ last.score.unlimited = DenominatorFactMissing
       /\ ScorePayments = {} => last.score.unlimited
       /\ users[1].loan_request_amount \in {0, 1} => last.score.unlimited

\* the only missing fact is the request: it is 1, everything else is positive
C18_Witness ==
    /\ last.op = "score" /\ last.score.unlimited
    /\ users[1].loan_request_amount = 1
    /\ ScorePayments # {} /\ ScoreLastPayment.amount > 0
    /\ ScoreLoanPayments > 0
    /\ ScoreTotalLoanAmount > 1

\* the facts of member 1 the numerator of the score is made of
ScoreLatestLoan ==
    CHOOSE l \in ScoreActiveLoans : \A o \in ScoreActiveLoans : o.id <= l.id
ScoreMonthsNoLoan ==
    Cardinality(ScorePayments)
    - Cardinality({lp.period : lp \in {x \in loan_payments : x.user = 1}})

\* some numerator factor is clamped to 0
NumeratorClamped ==
    \/ users[1].balance <= 1
    \/ ScoreActiveLoans = {}
    \/ ScoreLatestLoan.amount <= 1
    \/ ScoreMonthsNoLoan <= 0

\* numerator and denominator of the quotient, from the facts
ScoreNumerator ==
    Ln(ScoreLatestLoan.amount) * Ln(users[1].balance) * ScoreMonthsNoLoan
ScoreDenominator ==
    ScoreLastPayment.amount * ScoreLoanPayments * Ln(ScoreTotalLoanAmount)
    * Cardinality(ScoreActiveLoans) * Ln(users[1].loan_request_amount)

\* C19: when the five denominator factors are positive the score is never
\* unlimited: it is exactly 0 when a numerator factor is clamped to 0
\* (balance <= 1, latest ACTIVE loan amount <= 1, or no month paid without a
\* loan payment), and the positive quotient numerator / denominator otherwise.
C19_FiniteZeroOrPositiveQuotient ==
    (last.op = "score" /\ ~DenominatorFactMissing)
    => /\ ~last.score.unlimited
       /\ IF NumeratorClamped
          THEN last.score.num = 0 /\ last.score.den = 1
          ELSE /\ last.score.num > 0 /\ last.score.den > 0
               /\ ~FracLess(last.score.num, last.score.den,
                            ScoreNumerator, ScoreDenominator)
               /\ ~FracLess(ScoreNumerator, ScoreDenominator,
                            last.score.num, last.score.den)

\* the denominator is positive and the balance is 1: the score is 0
C19_Witness ==
    /\ last.op = "score" /\ ~DenominatorFactMissing
    /\ users[1].balance = 1
    /\ ScoreLatestLoan.amount > 1 /\ ScoreMonthsNoLoan > 0
    /\ ~last.score.unlimited /\ last.score.num = 0

\* the score of member 1 for the current history
ScoreOf == compute_user_score(DB, 1, users[1])

\* the step adds one month paid without a loan payment and leaves every other
\* fact of the member as it was: the latest Payment amount, the LoanPayments,
\* the loans, the balance and the request
OneMoreMonthNoLoan ==
    /\ ScorePayments # {}
    /\ payments' # payments
    /\ ScoreLastPayment'.amount = ScoreLastPayment.amount
    /\ UNCHANGED <<loan_payments, loans, users>>

\* C20 as stated: of two histories that differ only in the count of months
\* paid without a loan payment and both have a finite score, the one with
\* the larger count has the strictly larger score.
C20_StrictlyMonotoneInMonths ==
    [][(OneMoreMonthNoLoan /\ ~ScoreOf.unlimited /\ ~ScoreOf'.unlimited)
       => ScoreLess(ScoreOf, ScoreOf')]_vars

\* C20 amended: of two such histories the one with the larger count has the
\* strictly larger score when its score is positive; otherwise both scores
\* are 0.
C20_MonotoneInMonths ==
    [][(OneMoreMonthNoLoan /\ ~ScoreOf.unlimited /\ ~ScoreOf'.unlimited)
       => IF ScoreOf'.num > 0
          THEN ScoreLess(ScoreOf, ScoreOf')
          ELSE ScoreOf.num = 0 /\ ScoreOf'.num = 0]_vars

\* a positive score for a history with two months paid without a loan
\* payment, the same amount paid in every month
C20_Witness ==
    /\ last.op = "score" /\ ~last.score.unlimited /\ last.score.num > 0
    /\ ScoreMonthsNoLoan >= 2
    /\ \A pm \in ScorePayments : pm.amount = ScoreLastPayment.amount

(***************************************************************************)
(* POST /pay.                                                              *)
(***************************************************************************)
\* the member has a Payment of the month
HasPayment(u, p) == \E pm \in payments : pm.user = u /\ pm.period = p

\* the tables a payment writes
PayTables == <<users, payments, membership_fee_payments, loan_payments>>

\* C21 (the part that holds): in every reachable state at most one Payment
\* exists per (member, period), also after a pay transaction that started
\* before another Payment of the member for the period was committed; the
\* refused insert leaves balance, loan_request_amount and the payment
\* records unchanged.
C21_OnePaymentPerMemberPeriod ==
    /\ \A a, b \in payments :
          (a.user = b.user /\ a.period = b.period) => a = b
    /\ \A a, b \in membership_fee_payments :
          (a.user = b.user /\ a.period = b.period) => a = b

\* C21: a pay request answered while the member has a Payment of the month
\* is answered 409 and leaves balance, loan_request_amount and all payment
\* records unchanged, also when the Payment was committed by an interleaved
\* request after the duplicate check of this one.
C21_DuplicateAnswered409 ==
    [][(last'.op = "pay" /\ HasPayment(last'.user, last'.period))
         => (last'.code = "409" /\ UNCHANGED PayTables)]_vars

\* a request whose insert was refused after it passed the duplicate check
C21_Witness ==
    /\ last.op = "pay"
    /\ last.code = "IntegrityError"
    /\ HasPayment(last.user, last.period)

\* C22: a pay request that passed the duplicate and the fee check is refused
\* with 400, writing nothing, when the member has an ACTIVE loan and the
\* request carries no repayment or one below the loan's
\* min_amount_for_each_payment, and when the member has no ACTIVE loan and
\* the request carries a repayment; a request that passes the checks
\* carries a repayment exactly when the member has an ACTIVE loan.
C22_RepaymentIffActiveLoan ==
    [][/\ (last'.op = "pay" /\ pc' = pc) =>
            LET u == last'.user
                l == last'.loan
                act == active_loans(DB, u)
                reached ==
                    /\ ~HasPayment(u, now)
                    /\ last'.membership_fee
                         >= get_config(config)[1].min_membership_fee
                refused == last'.code = "400" /\ UNCHANGED PayTables
            IN  /\ (reached /\ act # {} /\ l = None) => refused
                /\ (reached /\ act # {} /\ l # None /\
                    \E x \in act : l < x.min_amount_for_each_payment)
                      => refused
                /\ (reached /\ act = {} /\ l # None) => refused
                /\ (reached /\ last'.code = "400" /\
                    last'.detail # "Bitpin payment verification failed")
                      => ~((l # None) <=> (act # {}))
                         \/ \E x \in act : l < x.min_amount_for_each_payment
       /\ (pc[1] = "idle" /\ pc'[1] = "pay_commit") =>
            /\ (inv'[1].loan # None)
                  <=> (active_loans(DB, inv'[1].user_id) # {})
            /\ \A x \in active_loans(DB, inv'[1].user_id) :
                  inv'[1].loan >= x.min_amount_for_each_payment
      ]_vars

\* the holder of an ACTIVE loan was refused for the missing repayment
C22_Witness ==
    /\ last.op = "pay"
    /\ last.code = "400"
    /\ last.detail = "Loan repayment amount is required"
    /\ has_active_loan(DB, last.user)

\* the transaction of the pay request takes this step
PayCommitStep == pc[1] = "pay_commit" /\ pc'[1] = "idle"

\* the effects claim C23 lists, of the request in inv[1], measured against
\* the state in which its transaction starts
PayEffects ==
    LET l == inv[1]
        u == l.user_id
        act == active_loans(DB, u)
        repayment == IF l.loan = None THEN 0 ELSE l.loan
    IN  /\ users'[u].balance = users[u].balance + l.membership_fee
        /\ \A o \in DOMAIN users : o # u => users'[o] = users[o]
        /\ payments' = payments \cup
              {[user |-> u, period |-> l.period,
                amount |-> l.membership_fee + repayment]}
        /\ ~HasPayment(u, l.period)
        /\ membership_fee_payments' = membership_fee_payments \cup
              {[user |-> u, period |-> l.period,
                amount |-> l.membership_fee]}
        /\ IF act # {}
           THEN \E x \in act :
                  /\ loan_payments' = loan_payments \cup
                        {[user |-> u, period |-> l.period, loan |-> x.id,
                          amount |-> l.loan]}
                  /\ loan_payments' # loan_payments
           ELSE loan_payments' = loan_payments

\* C23: a successful pay raises the member's balance by the membership fee
\* only, creates one Payment of the month with amount fee + repayment, one
\* membership fee record, and one loan payment linked to the member's
\* ACTIVE loan exactly when the member has one; a transaction in which a
\* write fails leaves none of them.
C23_ExactEffects ==
    [][PayCommitStep =>
         IF last'.code = "201" THEN PayEffects ELSE UNCHANGED PayTables]_vars

\* C23 (the part that holds): the same for every transaction that starts
\* with the member's row and ACTIVE loan as the request loaded them.
C23_EffectsOnLoadedRow ==
    [][(PayCommitStep /\ users[inv[1].user_id] = inv[1].user
        /\ (inv[1].active_loan = None
              <=> active_loans(DB, inv[1].user_id) = {}))
         => IF last'.code = "201" THEN PayEffects
            ELSE UNCHANGED PayTables]_vars

\* a successful transaction with a repayment has committed
C23_Witness ==
    /\ last.op = "pay"
    /\ last.code = "201"
    /\ \E lp \in loan_payments :
          lp.user = last.user /\ lp.period = last.period

\* C30: the transaction of a pay request that carries no loan_request_amount
\* leaves the member's stored loan_request_amount as it is when the
\* transaction starts, also when an update of the request amount committed
\* after the pay request loaded the member.
C30_PayKeepsNewerLoanRequest ==
    [][(PayCommitStep /\ inv[1].loan_request_amount = None) =>
         users'[inv[1].user_id].loan_request_amount
           = users[inv[1].user_id].loan_request_amount]_vars

\* C30 (the part that holds): the same for every transaction that starts
\* with the loan_request_amount the request loaded.
C30_PayKeepsLoadedLoanRequest ==
    [][(PayCommitStep /\ inv[1].loan_request_amount = None
        /\ users[inv[1].user_id].loan_request_amount
             = inv[1].user.loan_request_amount) =>
         users'[inv[1].user_id].loan_request_amount
           = users[inv[1].user_id].loan_request_amount]_vars

(***************************************************************************)
(* POST /loans/start.                                                      *)
(***************************************************************************)
\* the request r is answered on this step
StartAnswered(r) == pc[r] # "done" /\ pc'[r] = "done"

\* C24: every start request is answered 201, 400 or 409, and a request
\* answered while a Loan of its month exists, also one inserted by the
\* other request after this one's check, is answered 409 and adds no Loan.
C24_DeclaredOutcomes ==
    [][\A r \in Runs : StartAnswered(r) =>
         /\ start_response(inv'[r].outcome) \in {"201", "400", "409"}
         /\ (\E l \in loans : l.period = inv'[r].period) =>
               (start_response(inv'[r].outcome) = "409" /\ loans' = loans)
      ]_vars

\* C24 (the part that holds): a request answered while a Loan of its month
\* exists adds no Loan, and a request whose check finds the Loan is
\* answered 409.
C24_NoSecondLoan ==
    [][\A r \in Runs : StartAnswered(r) =>
         /\ (\E l \in loans : l.period = inv'[r].period) => loans' = loans
         /\ (pc[r] = "idle" /\ \E l \in loans : l.period = now) =>
               start_response(inv'[r].outcome) = "409"
      ]_vars

(***************************************************************************)
(* The audit log and the frame of run_loan_assignment.                     *)
(***************************************************************************)
\* the members that are active
ActiveMembers == {u \in DOMAIN users : users[u].is_active}

\* C25: in the log of every Loan a run inserts, each active member has
\* exactly one entry in not_participated and participated together, the two
\* lists are disjoint, and no inactive member is in either list, in
\* random_pool or the winner; when nobody is eligible every active member
\* has exactly one not_participated entry and participated is empty.
C25_LogPartitionsActiveMembers ==
    [][\A p \in Periods :
          (RunStep(p) /\ last'.code = "created")
          => LET l == Created(p)
                 np == l.log.not_participated
                 pp == l.log.participated
             IN  /\ Ids(np) \cap Ids(pp) = {}
                 /\ Ids(np) \cup Ids(pp) = ActiveMembers
                 /\ Len(np) + Len(pp) = Cardinality(ActiveMembers)
                 /\ Range(l.log.random_pool) \subseteq ActiveMembers
                 /\ l.user # None => l.user \in ActiveMembers
                 /\ l.log.selected # None => l.log.selected \in ActiveMembers
                 /\ EligibleSet = {} =>
                       /\ pp = << >>
                       /\ Ids(np) = ActiveMembers
                       /\ Len(np) = Cardinality(ActiveMembers)]_vars

\* a run listed the active member as participated while an inactive member
\* that would otherwise be eligible is in no list
C25_Witness ==
    /\ last.op = "run" /\ last.code = "created"
    /\ \E l \in LoansOf(last.period) :
          /\ l.log.participated # << >>
          /\ \E u \in DOMAIN users :
                /\ ~users[u].is_active
                /\ users[u].is_main
                /\ users[u].loan_request_amount > 0
                /\ u \notin Ids(l.log.participated)
                /\ u \notin Ids(l.log.not_participated)

\* the months in which the member has a Payment and no loan payment
MonthsPaidWithoutRepayment(u) ==
    {p \in Periods :
        /\ HasPayment(u, p)
        /\ ~\E lp \in loan_payments : lp.user = u /\ lp.period = p}

\* C26: for every member and every reachable payment history the months
\* factor of the score, max(0, payments - distinct months with a loan
\* payment), is the number of months with a Payment and no loan payment,
\* and the difference is never negative, so the floor never applies.
C26_MonthsFactorCountsUnencumberedMonths ==
    \A u \in DOMAIN users :
        /\ total_month_no_loan(DB, u)
             = Cardinality(MonthsPaidWithoutRepayment(u))
        /\ Cardinality({pm \in payments : pm.user = u})
             - Cardinality({lp.period : lp \in
                              {x \in loan_payments : x.user = u}}) >= 0

\* a member with one month paid without and one month paid with a repayment
C26_Witness ==
    \E u \in DOMAIN users :
        /\ Cardinality({pm \in payments : pm.user = u}) = 2
        /\ Cardinality({lp \in loan_payments : lp.user = u}) = 1
        /\ total_month_no_loan(DB, u) = 1

C28_RunWritesNoMemberOrPayment ==
    [][\A p \in Periods :
          RunStep(p) =>
            /\ UNCHANGED <<users, payments, membership_fee_payments,
                           loan_payments>>
            /\ saghat_balance(DB)' = saghat_balance(DB)]_vars

\* a run granted an ACTIVE Loan and the winner still holds the balance and
\* the request the run read
C28_Witness ==
    /\ last.op = "run" /\ last.code = "created"
    /\ \E l \in LoansOf(last.period) :
          /\ l.state = "active"
          /\ users[l.user].balance >= l.amount
          /\ users[l.user].loan_request_amount = l.amount
          /\ saghat_balance(DB) >= l.amount

====
